---- MODULE Spec2Model ----
(***************************************************************************)
(* obliviate: a local task-loop runner.  The model follows src/main.go:    *)
(* the on-disk state of one instance (tasks.jsonl, runs.jsonl, cycle.log,  *)
(* .tasks.lock), the head revision of the workdir, and the CLI processes   *)
(* (add, add-batch, reset, skip, go) that act on it.  Timestamps, the free *)
(* texts title/spec/priority/source, the captured output and learnings.md  *)
(* are left out: no operation of the program reads them back.              *)
(***************************************************************************)
EXTENDS Integers, Sequences, FiniteSets, TLC

VARIABLES
    disk,       \* tasks.jsonl: the persisted queue, a sequence of Task
    runs,       \* runs.jsonl: the appended RunLog records
    cycleLog,   \* cycle.log: the appended cycle-summary lines
    lockFile,   \* .tasks.lock exists
    head,       \* head revision of the workdir (git rev-parse HEAD)
    proc,       \* the CLI processes, one record per process slot
    sync,       \* history: sync[p] holds while the queue p has in memory was
                \* read inside the lock window p still holds and no other
                \* process has rewritten tasks.jsonl since
    lastWrite,  \* history: whether some process has rewritten tasks.jsonl,
                \* and whether every one that did held the lock and was in
                \* sync when it did
    q,          \* input and result of one nextRunnableTaskIndex call
    tmp         \* tasks.jsonl.tmp: whether it exists and the lines written

vars == <<disk, runs, cycleLog, lockFile, head, proc, sync, lastWrite, q, tmp>>

----------------------------------------------------------------------------
(* Bounds of the model *)

MaxTasks == 2
LoopTasks == 1
MaxVerify == 2
MaxRuns == 2
MaxCycles == 1
MaxHead == 2
MaxQLen == 2
MaxQAttempts == 3

(* Program constants *)

maxAttempts == 2

statusTodo == "todo"
statusInProgress == "in_progress"
statusDone == "done"
statusFailed == "failed"
statusBlocked == "blocked"

Statuses == {statusTodo, statusInProgress, statusDone, statusFailed, statusBlocked}

\* two process slots: two CLI invocations can be alive at a time
Procs == {1, 2}

----------------------------------------------------------------------------
(* Error texts.  An error is a record: its kind, and the verify command    *)
(* it names (0 when it names none).                                        *)

Err(kind, cmd) == [kind |-> kind, cmd |-> cmd]
NoErr == Err("", 0)
\* fmt.Errorf("verify failed: %s", failedCmd)
ErrVerify(cmd) == Err("verify failed", cmd)
\* err1 of the primary agent, passed through
ErrAgent == Err("agent", 0)
\* "primary failed (%s): %v; fallback failed: %v"
ErrFallback == Err("primary failed; fallback failed", 0)
ErrHeadBefore == Err("require-commit: resolve pre-task git head", 0)
ErrHeadAfter == Err("require-commit: resolve post-task git head", 0)
ErrNoCommit == Err("require-commit enabled: no new commit created", 0)
\* "skipped: " + reasonText
ErrSkipped == Err("skipped", 0)

----------------------------------------------------------------------------
(* Task and the pure functions over the queue *)

Task(id, verify, hint) ==
    [id |-> id, verify |-> verify, status |-> statusTodo, model_hint |-> hint,
     attempts |-> 0, last_error |-> NoErr]

Max(S) == IF S = {} THEN 0 ELSE CHOOSE m \in S : \A x \in S : x <= m
Min(S) == CHOOSE m \in S : \A x \in S : m <= x

\* the new ids restart from the highest one
nextTaskNumberNoStep(tasks) == Max({tasks[i].id : i \in 1..Len(tasks)})

\* ids are OB-NNN; the model keeps the numeric suffix NNN
nextTaskNumber(tasks) == Max({tasks[i].id : i \in 1..Len(tasks)}) + 1

\* index of the first task with that id, 0 for the source's -1
findTaskIndex(tasks, taskID) ==
    LET hits == {i \in 1..Len(tasks) : tasks[i].id = taskID}
    IN IF hits = {} THEN 0 ELSE Min(hits)

\* index of the next task to run, 0 for the source's -1
nextRunnableTaskIndex(tasks) ==
    LET todo == {i \in 1..Len(tasks) : tasks[i].status = statusTodo}
        retry == {i \in 1..Len(tasks) :
                    tasks[i].status = statusFailed /\ tasks[i].attempts < maxAttempts}
    IN IF todo # {} THEN Min(todo)
       ELSE IF retry # {} THEN Min(retry)
       ELSE 0

----------------------------------------------------------------------------
(* Model router and failure classifier.  A model hint is one of a few      *)
(* concrete strings; an agent's error text and output are abstracted to    *)
(* the set of the phrases that occur in them, in the case they are         *)
(* written in.                                                             *)

Hints == {"codex", "claude-sonnet", "opus"}

\* (provider, model) for the hints above, following the tests of routeModel
\* in order: contains "opus", contains "sonnet", ..., prefix "codex"
routeModel(hint) ==
    IF hint = "opus" THEN [provider |-> "claude", model |-> "opus"]
    ELSE IF hint = "claude-sonnet" THEN [provider |-> "claude", model |-> "sonnet"]
    ELSE [provider |-> "codex", model |-> ""]

NoFallback == [provider |-> "", model |-> "", ok |-> FALSE]

\* codex falls back to the most capable claude model
selectFallbackOpus(provider, model) ==
    IF provider = "codex" THEN [provider |-> "claude", model |-> "opus", ok |-> TRUE]
    ELSE IF provider = "claude" THEN [provider |-> "codex", model |-> "", ok |-> TRUE]
    ELSE NoFallback

selectFallback(provider, model) ==
    IF provider = "codex" THEN [provider |-> "claude", model |-> "sonnet", ok |-> TRUE]
    ELSE IF provider = "claude" THEN [provider |-> "codex", model |-> "", ok |-> TRUE]
    ELSE NoFallback

\* keyword k occurs in w as a substring, for the keywords of the classifier
SubstringOf == {<<"auth", "unauthorized">>, <<"model", "unknown model">>}

\* strings.Contains(msg, k) on the keyword abstraction of msg
Contains(msg, k) == k \in msg \/ \E w \in msg : <<k, w>> \in SubstringOf

containsAny(msg, keys) == \E k \in keys : Contains(msg, k)

\* a phrase in lower case; the phrases that are not written in lower case
lower(w) ==
    CASE w = "Too Many Requests" -> "too many requests"
      [] w = "Unauthorized" -> "unauthorized"
      [] w = "QUOTA" -> "quota"
      [] OTHER -> w

\* the text is inspected as it is written
keepCase(msg) == msg

\* strings.ToLower of the text
ToLower(msg) == {lower(w) : w \in msg}

\* isErr: err != nil; msg: the phrases of err.Error() + "\n" + output
classifyProviderFailure(isErr, msg) ==
    LET m == ToLower(msg)
    IN IF ~isErr THEN ""
       ELSE IF containsAny(m, {"rate limit", "rate-limited", "too many requests", "429"})
           THEN "rate_limit"
       ELSE IF containsAny(m, {"usage limit", "quota", "daily limit", "weekly limit", "monthly limit"})
           THEN "quota"
       ELSE IF containsAny(m, {"billing", "payment", "insufficient credits"})
           THEN "billing"
       ELSE IF containsAny(m, {"model", "not exist", "not have access", "unknown model"})
           THEN "model_unavailable"
       ELSE IF containsAny(m, {"temporarily unavailable", "service unavailable", "overloaded"})
           THEN "provider_unavailable"
       ELSE IF containsAny(m, {"auth", "unauthorized", "forbidden", "login required"})
           THEN "auth"
       ELSE ""

----------------------------------------------------------------------------
(* Processes.  A slot is idle or runs one CLI invocation; pc is the place  *)
(* the invocation has reached.                                             *)

\* RunLog, before the iteration fills it in
NoRun ==
    [task_id |-> 0, status |-> "", provider |-> "", model |-> "",
     primary_provider |-> "", primary_model |-> "",
     fallback_provider |-> "", fallback_model |-> "", fallback_reason |-> "",
     error |-> NoErr, verify_failed |-> 0]

IdleProc ==
    [pc |-> "idle", cmd |-> "", held |-> FALSE, tasks |-> <<>>,
     limit |-> 0, dryRun |-> FALSE, requireCommit |-> FALSE,
     processed |-> 0, doneCount |-> 0, failedCount |-> 0, blockedCount |-> 0,
     taskIDs |-> <<>>, idx |-> 0,
     headBefore |-> 0, headBeforeErr |-> FALSE,
     out1 |-> [isErr |-> FALSE, msg |-> {}],
     calls |-> <<>>, vlog |-> <<>>, execErr |-> NoErr, run |-> NoRun]

NoWrite == [written |-> FALSE, safe |-> TRUE]

NoQuery == [tasks |-> <<>>, cap |-> maxAttempts, result |-> -1]

\* no tasks.jsonl.tmp
NoTmp == [exists |-> FALSE, lines |-> <<>>]

\* the inputs of add and add-batch: verify commands and model hint of a task
\* (verify commands are named 1..n)
VerifyList(n) == [k \in 1..n |-> k]
TaskInput(n, hint) == [verify |-> VerifyList(n), model_hint |-> hint]

\* what an agent invocation returns: err != nil and the keywords of its text
AgentOk == [isErr |-> FALSE, msg |-> {}]
AgentErr(msg) == [isErr |-> TRUE, msg |-> msg]

Pending(p) == IF proc[p].cmd = "add" THEN 1 ELSE IF proc[p].cmd = "add-batch" THEN 2 ELSE 0

RECURSIVE SumPending(_)
SumPending(S) ==
    IF S = {} THEN 0
    ELSE LET p == CHOOSE x \in S : TRUE IN Pending(p) + SumPending(S \ {p})

InitState ==
    /\ disk = <<>>
    /\ runs = <<>>
    /\ cycleLog = <<>>
    /\ lockFile = FALSE
    /\ head = 1
    /\ proc = [p \in Procs |-> IdleProc]
    /\ sync = [p \in Procs |-> FALSE]
    /\ lastWrite = NoWrite
    /\ tmp = NoTmp

Init == InitState /\ q = NoQuery

\* --limit, --dry-run and --require-commit of a go invocation
NoFlags == [limit |-> 0, dryRun |-> FALSE, requireCommit |-> FALSE]

\* the files of the instance and the workdir, other than the lock
files == <<disk, runs, cycleLog, head>>

----------------------------------------------------------------------------
(* Starting a command.  The arguments of an invocation are fixed when it   *)
(* starts, but nothing reads them before the lock is held, so the model    *)
(* draws them at the step that first uses them.                            *)

Commands == {"add", "add-batch", "reset", "skip", "go"}

\* main: dispatch to cmdAdd, cmdAddBatch, cmdReset, cmdSkip or cmdGo, up to
\* the call of acquireInstanceLock
Begin(p, cmd, maxTasks) ==
    /\ proc[p].pc = "idle"
    /\ cmd \in {"add", "add-batch"} =>
          Len(disk) + SumPending(Procs) + (IF cmd = "add" THEN 1 ELSE 2) <= maxTasks
    /\ cmd = "go" => Len(cycleLog) < MaxCycles
    /\ proc' = [proc EXCEPT ![p] = [IdleProc EXCEPT !.pc = "lock", !.cmd = cmd]]
    /\ UNCHANGED <<files, lockFile, sync, lastWrite, q, tmp>>

----------------------------------------------------------------------------
(* Instance lock *)

\* the lock file is opened without O_EXCL
PlainCreate(exists) == TRUE

\* os.OpenFile(lockPath, O_CREATE|O_EXCL|O_WRONLY) succeeds
ExclCreate(exists) == ~exists

\* returning removes the lock file, whoever created it
ReleasedByAnyone(p) == FALSE

\* the deferred release, os.Remove(lockPath), of a process that returns;
\* a process that never acquired has no release to run
Released(p) == IF proc[p].held THEN FALSE ELSE lockFile

\* the process returns and its lock file stays
ReturnKeepsLock(p) ==
    /\ proc' = [proc EXCEPT ![p] = IdleProc]
    /\ lockFile' = lockFile
    /\ sync' = [sync EXCEPT ![p] = FALSE]

\* the process returns (with or without an error): deferred release, exit
Return(p) ==
    /\ proc' = [proc EXCEPT ![p] = IdleProc]
    /\ lockFile' = Released(p)
    /\ sync' = [sync EXCEPT ![p] = FALSE]

acquireInstanceLock(p) ==
    /\ proc[p].pc = "lock"
    /\ ExclCreate(lockFile)
    /\ lockFile' = TRUE
    /\ proc' = [proc EXCEPT ![p].pc = "load", ![p].held = TRUE]
    /\ UNCHANGED <<files, sync, lastWrite, q, tmp>>

\* the lock file has existed for more than lockWaitMax: the command fails
acquireTimeout(p) ==
    /\ proc[p].pc = "lock"
    /\ ~ExclCreate(lockFile)
    /\ Return(p)
    /\ UNCHANGED <<files, lastWrite, q, tmp>>

\* the process dies (kill, power loss, or Ctrl+C: no signal handler is
\* installed): nothing deferred runs
Crash(p) ==
    /\ proc[p].pc # "idle"
    /\ proc' = [proc EXCEPT ![p] = IdleProc]
    /\ sync' = [sync EXCEPT ![p] = FALSE]
    /\ UNCHANGED <<files, lockFile, lastWrite, q, tmp>>

----------------------------------------------------------------------------
(* State store *)

\* a line of tasks.jsonl that json.Unmarshal rejects
BadLine == [text |-> "{"]

\* json.Unmarshal([]byte(line), &t) returns no error
parses(line) == "id" \in DOMAIN line

\* the number of the first line that does not parse, 0 if all do
parseErrorLine(lines) ==
    LET bad == {k \in 1..Len(lines) : ~parses(lines[k])}
    IN IF bad = {} THEN 0 ELSE Min(bad)

loadTasks(p, flags) ==
    /\ proc[p].pc = "load"
    /\ parseErrorLine(disk) = 0
    /\ proc[p].cmd # "go" => flags = NoFlags
    /\ proc' = [proc EXCEPT ![p].tasks = disk,
                            ![p].limit = flags.limit,
                            ![p].dryRun = flags.dryRun,
                            ![p].requireCommit = flags.requireCommit,
                            ![p].pc = IF proc[p].cmd = "go" THEN "select" ELSE "apply"]
    /\ sync' = [sync EXCEPT ![p] = proc[p].held]
    /\ UNCHANGED <<files, lockFile, lastWrite, q, tmp>>

\* saveTasks(tasksPath, tasks) by p, which still holds the lock afterwards
\* iff keeps
saveTasks(p, tasks, keeps) ==
    /\ disk' = tasks
    /\ lastWrite' = [written |-> TRUE,
                     safe |-> lastWrite.safe /\ proc[p].held /\ sync[p]]
    /\ sync' = [r \in Procs |-> r = p /\ keeps /\ proc[p].held]

----------------------------------------------------------------------------
(* Administrative commands, after acquire and load *)

\* the queue that is saved holds the added tasks only
addedOnly(tasks, inputs, next) ==
    [k \in 1..Len(inputs) |->
        Task(next + k - 1, inputs[k].verify, inputs[k].model_hint)]

RECURSIVE appendInputs(_, _, _)
\* the loop of addTasks: ids next, next+1, ... in input order
appendInputs(tasks, inputs, next) ==
    IF inputs = <<>> THEN tasks
    ELSE appendInputs(Append(tasks, Task(next, Head(inputs).verify, Head(inputs).model_hint)),
                      Tail(inputs), next + 1)

addTasks(p, inputs) ==
    /\ proc[p].pc = "apply"
    /\ proc[p].cmd \in {"add", "add-batch"}
    /\ Len(inputs) = Pending(p)
    /\ saveTasks(p, appendInputs(proc[p].tasks, inputs,
                                 nextTaskNumber(proc[p].tasks)), FALSE)
    /\ proc' = [proc EXCEPT ![p] = IdleProc]
    /\ lockFile' = Released(p)
    /\ UNCHANGED <<runs, cycleLog, head, q, tmp>>

\* reset gives the task back to the loop but keeps its attempts
resetTaskKeepsAttempts(t) == [t EXCEPT !.status = statusTodo, !.last_error = NoErr]

\* tasks[idx] after cmdReset
resetTask(t) == [t EXCEPT !.status = statusTodo, !.attempts = 0, !.last_error = NoErr]

\* skip leaves the task failed
skipTaskAsFailed(t) == [t EXCEPT !.status = statusFailed, !.last_error = ErrSkipped]

\* tasks[idx] after cmdSkip
skipTask(t) == [t EXCEPT !.status = statusBlocked, !.last_error = ErrSkipped]

cmdReset(p, taskID) ==
    /\ proc[p].pc = "apply"
    /\ proc[p].cmd = "reset"
    /\ LET idx == findTaskIndex(proc[p].tasks, taskID) IN
       IF idx = 0
       THEN \* task not found
            /\ Return(p)
            /\ UNCHANGED <<files, lastWrite, q, tmp>>
       ELSE /\ saveTasks(p, [proc[p].tasks EXCEPT ![idx] = resetTask(@)], FALSE)
            /\ proc' = [proc EXCEPT ![p] = IdleProc]
            /\ lockFile' = Released(p)
            /\ UNCHANGED <<runs, cycleLog, head, q, tmp>>

cmdSkip(p, taskID) ==
    /\ proc[p].pc = "apply"
    /\ proc[p].cmd = "skip"
    /\ LET idx == findTaskIndex(proc[p].tasks, taskID) IN
       IF idx = 0
       THEN \* task not found
            /\ Return(p)
            /\ UNCHANGED <<files, lastWrite, q, tmp>>
       ELSE /\ saveTasks(p, [proc[p].tasks EXCEPT ![idx] = skipTask(@)], FALSE)
            /\ proc' = [proc EXCEPT ![p] = IdleProc]
            /\ lockFile' = Released(p)
            /\ UNCHANGED <<runs, cycleLog, head, q, tmp>>

----------------------------------------------------------------------------
(* saveTasks step by step: create the temporary file, encode one task per  *)
(* line, close, rename.  A file is a sequence of whole lines; a crash or   *)
(* an error in the middle of the encoding leaves a prefix of the lines.    *)
(* The administrative commands run over these steps in SpecSave; in the    *)
(* other environments saveTasks is the one step above.                     *)

\* a path is the sequence of the parts of its name
tasksPath == <<"tasks.jsonl">>

\* the encoder writes into tasks.jsonl itself
inPlacePath(path) == path

\* tmp := path + ".tmp"
tmpPath(path) == Append(path, ".tmp")

\* the lines of the file of that name
FileLines(name) == IF name = tasksPath THEN disk ELSE tmp.lines

\* the file of that name is created, truncated or appended to
WriteFile(name, lines) ==
    IF name = tasksPath
    THEN disk' = lines /\ UNCHANGED tmp
    ELSE tmp' = [exists |-> TRUE, lines |-> lines] /\ UNCHANGED disk

\* os.Remove(name); a missing tasks.jsonl loads as the empty queue
RemoveFile(name) ==
    IF name = tasksPath
    THEN disk' = <<>> /\ UNCHANGED tmp
    ELSE tmp' = NoTmp /\ UNCHANGED disk

\* the command has made its change in memory and calls saveTasks
stage(p, tasks) ==
    /\ proc' = [proc EXCEPT ![p].tasks = tasks, ![p].pc = "save"]
    /\ UNCHANGED <<files, lockFile, sync, lastWrite, q, tmp>>

addTasksStage(p, inputs) ==
    /\ proc[p].pc = "apply"
    /\ proc[p].cmd \in {"add", "add-batch"}
    /\ Len(inputs) = Pending(p)
    /\ stage(p, appendInputs(proc[p].tasks, inputs, nextTaskNumber(proc[p].tasks)))

cmdResetStage(p, taskID) ==
    /\ proc[p].pc = "apply"
    /\ proc[p].cmd = "reset"
    /\ LET idx == findTaskIndex(proc[p].tasks, taskID) IN
       IF idx = 0
       THEN /\ Return(p)
            /\ UNCHANGED <<files, lastWrite, q, tmp>>
       ELSE stage(p, [proc[p].tasks EXCEPT ![idx] = resetTask(@)])

cmdSkipStage(p, taskID) ==
    /\ proc[p].pc = "apply"
    /\ proc[p].cmd = "skip"
    /\ LET idx == findTaskIndex(proc[p].tasks, taskID) IN
       IF idx = 0
       THEN /\ Return(p)
            /\ UNCHANGED <<files, lastWrite, q, tmp>>
       ELSE stage(p, [proc[p].tasks EXCEPT ![idx] = skipTask(@)])

\* f, err := os.Create(tmp)
saveCreate(p) ==
    /\ proc[p].pc = "save"
    /\ WriteFile(tmpPath(tasksPath), <<>>)
    /\ proc' = [proc EXCEPT ![p].pc = "encode"]
    /\ UNCHANGED <<runs, cycleLog, head, lockFile, sync, lastWrite, q>>

\* enc.Encode(t) of the next task
saveEncode(p) ==
    LET name == tmpPath(tasksPath)
        k == Len(FileLines(name)) + 1
    IN /\ proc[p].pc = "encode"
       /\ k <= Len(proc[p].tasks)
       /\ WriteFile(name, Append(FileLines(name), proc[p].tasks[k]))
       /\ UNCHANGED <<runs, cycleLog, head, lockFile, proc, sync, lastWrite, q>>

\* enc.Encode fails: the temporary file is removed, the command returns err
saveEncodeError(p) ==
    LET name == tmpPath(tasksPath)
    IN /\ proc[p].pc = "encode"
       /\ Len(FileLines(name)) < Len(proc[p].tasks)
       /\ RemoveFile(name)
       /\ Return(p)
       /\ UNCHANGED <<runs, cycleLog, head, lastWrite, q>>

\* f.Close or os.Rename fails: the command returns err, the temporary file
\* stays
saveCloseError(p) ==
    /\ proc[p].pc = "encode"
    /\ Len(FileLines(tmpPath(tasksPath))) >= Len(proc[p].tasks)
    /\ Return(p)
    /\ UNCHANGED <<files, lastWrite, q, tmp>>

\* os.Rename(tmp, path), then the command returns
saveRename(p) ==
    LET name == tmpPath(tasksPath)
    IN /\ proc[p].pc = "encode"
       /\ Len(FileLines(name)) >= Len(proc[p].tasks)
       /\ disk' = FileLines(name)
       /\ tmp' = IF name = tasksPath THEN tmp ELSE NoTmp
       /\ lastWrite' = [written |-> TRUE,
                        safe |-> lastWrite.safe /\ proc[p].held /\ sync[p]]
       /\ proc' = [proc EXCEPT ![p] = IdleProc]
       /\ lockFile' = Released(p)
       /\ sync' = [r \in Procs |-> FALSE]
       /\ UNCHANGED <<runs, cycleLog, head, q>>

----------------------------------------------------------------------------
(* cmdGo: the execution loop.  pc: select -> agent -> (fallback) ->        *)
(* verify -> (gate) -> finish -> persist -> select ... -> summary          *)

\* the per-iteration locals of cmdGo, cleared
clearIteration(me) ==
    [me EXCEPT !.idx = 0, !.headBefore = 0, !.headBeforeErr = FALSE,
               !.out1 = IdleProc.out1, !.calls = <<>>, !.vlog = <<>>,
               !.execErr = NoErr, !.run = NoRun]

\* --limit is not looked at
limitNeverReached(limit, processed) == FALSE

\* the first test of the loop: *limit > 0 && processed >= *limit
limitReached(limit, processed) == limit > 0 /\ processed >= limit

\* the loop condition fails: limit reached or nothing runnable
goLoopExit(p) ==
    /\ proc[p].pc = "select"
    /\ \/ limitReached(proc[p].limit, proc[p].processed)
       \/ nextRunnableTaskIndex(proc[p].tasks) = 0
    /\ proc' = [proc EXCEPT ![p].pc = "summary"]
    /\ UNCHANGED <<files, lockFile, sync, lastWrite, q, tmp>>

\* the chosen task is left as it is
dryRunTaskUnmarked(t) == t

\* tasks[idx] once a dry run has announced it
dryRunTask(t) == [t EXCEPT !.status = statusDone]

\* --dry-run: the chosen task is marked done in memory only
goDryRun(p) ==
    LET me == proc[p]
        idx == nextRunnableTaskIndex(me.tasks)
    IN /\ me.pc = "select"
       /\ ~limitReached(me.limit, me.processed)
       /\ idx # 0
       /\ me.dryRun
       /\ proc' = [proc EXCEPT ![p].processed = @ + 1,
                               ![p].tasks[idx] = dryRunTask(@),
                               ![p].taskIDs = Append(@, me.tasks[idx].id)]
       /\ UNCHANGED <<files, lockFile, sync, lastWrite, q, tmp>>

\* the lock is released as soon as in_progress is persisted
releasedAfterStart(held) == FALSE

\* does the loop still hold the lock once in_progress is persisted: nothing
\* between acquireInstanceLock and the return of cmdGo releases it
holdsAfterStart(held) == held

\* the chosen task is not marked
startTaskUnmarked(t) == t

\* the task is also charged an attempt when it is started
startTaskCounting(t) == [t EXCEPT !.status = statusInProgress, !.attempts = @ + 1]

\* tasks[idx] once the loop has chosen it
startTask(t) == [t EXCEPT !.status = statusInProgress]

\* the chosen task is persisted as in_progress, the model is routed and the
\* pre-task head is probed
goStartTask(p, probeErr) ==
    LET me == proc[p]
        idx == nextRunnableTaskIndex(me.tasks)
        t == me.tasks[idx]
        primary == routeModel(t.model_hint)
        keeps == holdsAfterStart(me.held)
    IN /\ me.pc = "select"
       /\ ~limitReached(me.limit, me.processed)
       /\ idx # 0
       /\ ~me.dryRun
       /\ Len(runs) < MaxRuns
       /\ saveTasks(p, [me.tasks EXCEPT ![idx] = startTask(t)], keeps)
       /\ lockFile' = IF me.held /\ ~keeps THEN FALSE ELSE lockFile
       /\ probeErr => me.requireCommit
       /\ proc' = [proc EXCEPT ![p] =
            [me EXCEPT !.pc = "agent", !.idx = idx, !.held = keeps,
                       !.tasks[idx] = startTask(t),
                       !.headBefore = IF me.requireCommit /\ ~probeErr THEN head ELSE 0,
                       !.headBeforeErr = probeErr,
                       !.run = [NoRun EXCEPT !.task_id = t.id,
                                             !.primary_provider = primary.provider,
                                             !.primary_model = primary.model]]]
       /\ UNCHANGED <<runs, cycleLog, head, q, tmp>>

\* saveTasks fails before the agent is started: return err
goStartError(p) ==
    LET me == proc[p]
    IN /\ me.pc = "select"
       /\ ~limitReached(me.limit, me.processed)
       /\ nextRunnableTaskIndex(me.tasks) # 0
       /\ ~me.dryRun
       /\ Return(p)
       /\ UNCHANGED <<files, lastWrite, q, tmp>>

\* the commit gate is never run
afterExecNoGate(me, execErr) == "finish"

\* next place after the agent and the verifies
afterExec(me, execErr) ==
    IF execErr = NoErr /\ me.requireCommit THEN "gate" ELSE "finish"

\* every failure of the primary goes to the fallback agent
usesFallbackAlways(reason, ok) == ok

\* the primary has failed: is the fallback agent invoked
usesFallback(reason, ok) == reason # "" /\ ok

\* runAgentWithFallback up to the return of the primary agent
goAgentPrimary(p, r, commits) ==
    LET me == proc[p]
        pp == me.run.primary_provider
        pm == me.run.primary_model
        reason == classifyProviderFailure(r.isErr, r.msg)
        fbk == selectFallback(pp, pm)
        called == Append(me.calls, [provider |-> pp, model |-> pm,
                                    isErr |-> r.isErr, msg |-> r.msg])
    IN /\ me.pc = "agent"
       /\ head + commits <= MaxHead
       /\ head' = head + commits
       /\ proc' = [proc EXCEPT ![p] =
            IF ~r.isErr
            THEN [me EXCEPT !.pc = "verify", !.calls = called,
                            !.run.provider = pp, !.run.model = pm]
            ELSE IF ~usesFallback(reason, fbk.ok)
            THEN [me EXCEPT !.pc = "finish", !.calls = called,
                            !.execErr = ErrAgent,
                            !.run.provider = pp, !.run.model = pm]
            ELSE [me EXCEPT !.pc = "fallback", !.calls = called, !.out1 = r]]
       /\ UNCHANGED <<disk, runs, cycleLog, lockFile, sync, lastWrite, q, tmp>>

\* the run keeps the primary as its provider and model
fallbackRunKeepsPrimary(run, fbk, reason) ==
    [run EXCEPT !.provider = run.primary_provider,
                !.model = run.primary_model,
                !.fallback_provider = fbk.provider,
                !.fallback_model = fbk.model,
                !.fallback_reason = reason]

\* the RunLog of an iteration whose fallback agent was invoked: provider and
\* model returned by runAgentWithFallback, and the fallbackAttempt details
fallbackRun(run, fbk, reason) ==
    [run EXCEPT !.provider = fbk.provider,
                !.model = fbk.model,
                !.fallback_provider = fbk.provider,
                !.fallback_model = fbk.model,
                !.fallback_reason = reason]

\* runAgentWithFallback from the call of the fallback agent
goAgentFallback(p, isErr, commits) ==
    LET me == proc[p]
        fbk == selectFallback(me.run.primary_provider, me.run.primary_model)
        reason == classifyProviderFailure(me.out1.isErr, me.out1.msg)
    IN /\ me.pc = "fallback"
       /\ head + commits <= MaxHead
       /\ head' = head + commits
       /\ proc' = [proc EXCEPT ![p] =
            [me EXCEPT !.pc = IF isErr THEN "finish" ELSE "verify",
                       !.calls = Append(@, [provider |-> fbk.provider,
                                            model |-> fbk.model,
                                            isErr |-> isErr, msg |-> {}]),
                       !.out1 = IdleProc.out1,
                       !.execErr = IF isErr THEN ErrFallback ELSE NoErr,
                       !.run = fallbackRun(@, fbk, reason)]]
       /\ UNCHANGED <<disk, runs, cycleLog, lockFile, sync, lastWrite, q, tmp>>

\* a failing verify command is not noticed
verifyErrIgnored(failed, v) == NoErr

\* execErr once verify command v has returned
verifyErr(failed, v) == IF failed THEN ErrVerify(v) ELSE NoErr

\* the loop goes on after a failing command
verifyRunsAll(failed, k, n) == k = n

\* does the verify loop end after command k of n: break at the first
\* verifyErr, or the range is exhausted
verifyHalts(failed, k, n) == failed \/ k = n

\* one turn of the verify loop: the next command of t.Verify is run
goVerify(p, failed) ==
    LET me == proc[p]
        verify == me.tasks[me.idx].verify
        k == Len(me.vlog) + 1
        v == verify[k]
        err == verifyErr(failed, v)
    IN /\ me.pc = "verify"
       /\ k <= Len(verify)
       /\ proc' = [proc EXCEPT ![p] =
            [me EXCEPT !.vlog = Append(@, [cmd |-> v, failed |-> failed]),
                       !.execErr = err,
                       !.run.verify_failed = IF failed THEN v ELSE 0,
                       !.pc = IF verifyHalts(failed, k, Len(verify))
                              THEN afterExec(me, err) ELSE "verify"]]
       /\ UNCHANGED <<files, lockFile, sync, lastWrite, q, tmp>>

\* the commit gate: post-task head probe and comparison
goGate(p, probeErr) ==
    LET me == proc[p]
    IN /\ me.pc = "gate"
       /\ probeErr => ~me.headBeforeErr
       /\ proc' = [proc EXCEPT ![p].pc = "finish",
                               ![p].execErr =
                                   IF me.headBeforeErr THEN ErrHeadBefore
                                   ELSE IF probeErr THEN ErrHeadAfter
                                   ELSE IF head = me.headBefore THEN ErrNoCommit
                                   ELSE NoErr]
       /\ UNCHANGED <<files, lockFile, sync, lastWrite, q, tmp>>

\* the cap is compared with > instead of >=
failStatusOffByOne(attempts) ==
    IF attempts > maxAttempts THEN statusBlocked ELSE statusFailed

\* the status of a task whose attempts counter has just been incremented
failStatus(attempts) ==
    IF attempts >= maxAttempts THEN statusBlocked ELSE statusFailed

\* a failure leaves last_error as it was
finishTaskKeepsError(t, execErr) ==
    IF execErr # NoErr
    THEN [t EXCEPT !.attempts = @ + 1, !.status = failStatus(t.attempts + 1)]
    ELSE [t EXCEPT !.status = statusDone, !.last_error = NoErr]

\* a success starts the task's count afresh
finishTaskResetsAttempts(t, execErr) ==
    IF execErr # NoErr
    THEN [t EXCEPT !.attempts = @ + 1, !.last_error = execErr,
                   !.status = failStatus(t.attempts + 1)]
    ELSE [t EXCEPT !.status = statusDone, !.last_error = NoErr, !.attempts = 0]

\* a failure is not charged as an attempt
finishTaskNotCharged(t, execErr) ==
    IF execErr # NoErr
    THEN [t EXCEPT !.last_error = execErr, !.status = failStatus(t.attempts)]
    ELSE [t EXCEPT !.status = statusDone, !.last_error = NoErr]

\* tasks[idx] after the iteration, from execErr
finishTask(t, execErr) ==
    IF execErr # NoErr
    THEN [t EXCEPT !.attempts = @ + 1, !.last_error = execErr,
                   !.status = failStatus(t.attempts + 1)]
    ELSE [t EXCEPT !.status = statusDone, !.last_error = NoErr]

\* every run is recorded as done
runStatusDone(t) == statusDone

\* run.Status, taken from the task once it is updated
runStatus(t) == t.status

\* the task is updated in memory and the run record is appended
goFinish(p) ==
    LET me == proc[p]
        t == finishTask(me.tasks[me.idx], me.execErr)
    IN /\ me.pc = "finish"
       /\ runs' = Append(runs, [me.run EXCEPT !.status = runStatus(t), !.error = me.execErr])
       /\ proc' = [proc EXCEPT ![p] =
            [me EXCEPT !.pc = "persist",
                       !.tasks[me.idx] = t,
                       !.run.status = runStatus(t),
                       !.run.error = me.execErr,
                       !.doneCount = IF t.status = statusDone THEN @ + 1 ELSE @,
                       !.failedCount = IF t.status = statusFailed THEN @ + 1 ELSE @,
                       !.blockedCount = IF t.status = statusBlocked THEN @ + 1 ELSE @]]
       /\ UNCHANGED <<disk, cycleLog, head, lockFile, sync, lastWrite, q, tmp>>

\* the queue is persisted after the run record
goPersist(p) ==
    LET me == proc[p]
    IN /\ me.pc = "persist"
       /\ saveTasks(p, me.tasks, TRUE)
       /\ proc' = [proc EXCEPT ![p] =
            [clearIteration(me) EXCEPT !.pc = "select",
                                       !.processed = @ + 1,
                                       !.taskIDs = Append(@, me.tasks[me.idx].id)]]
       /\ UNCHANGED <<runs, cycleLog, head, lockFile, q, tmp>>

\* appendJSONLine or the saveTasks after it fails: return err
goFinishError(p) ==
    /\ proc[p].pc \in {"finish", "persist"}
    /\ Return(p)
    /\ UNCHANGED <<files, lastWrite, q, tmp>>

\* appendCycleSummaryLine, then the invocation returns
goSummary(p) ==
    LET me == proc[p]
    IN /\ me.pc = "summary"
       /\ Len(cycleLog) < MaxCycles
       /\ cycleLog' = Append(cycleLog,
                             [processed |-> me.processed, done |-> me.doneCount,
                              failed |-> me.failedCount, blocked |-> me.blockedCount,
                              dry_run |-> me.dryRun, task_ids |-> me.taskIDs])
       /\ Return(p)
       /\ UNCHANGED <<disk, runs, head, lastWrite, q, tmp>>

\* appendCycleSummaryLine fails: return err
goSummaryError(p) ==
    /\ proc[p].pc = "summary"
    /\ Return(p)
    /\ UNCHANGED <<files, lastWrite, q, tmp>>

----------------------------------------------------------------------------
(* The program *)

(* Two environments of the same program.                                   *)
(*                                                                         *)
(* Spec: two process slots run every command concurrently; tasks have one  *)
(* verify command and the codex hint, agents succeed or fail with an       *)
(* unclassified error, and go is run without --require-commit (so neither  *)
(* the fallback agent nor the commit gate is reached).                     *)
(*                                                                         *)
(* SpecLoop: one process slot runs add and go, one after the other, with   *)
(* every outcome of an iteration: classified and unclassified agent        *)
(* errors, fallback, several verify commands, --require-commit with head   *)
(* probes that fail or succeed, agents that commit or do not.              *)

Flags == [limit : {0, 1}, dryRun : BOOLEAN, requireCommit : {FALSE}]
Inputs == {TaskInput(1, "codex")}
Results == {AgentOk, AgentErr({})}

Next ==
    \E p \in Procs :
        \/ \E cmd \in Commands : Begin(p, cmd, MaxTasks)
        \/ acquireInstanceLock(p)
        \/ acquireTimeout(p)
        \/ Crash(p)
        \/ \E flags \in Flags : loadTasks(p, flags)
        \/ \E a \in Inputs : addTasks(p, <<a>>)
        \/ \E a \in Inputs, b \in Inputs : addTasks(p, <<a, b>>)
        \/ \E id \in 1..MaxTasks : cmdReset(p, id)
        \/ \E id \in 1..MaxTasks : cmdSkip(p, id)
        \/ goLoopExit(p)
        \/ goDryRun(p)
        \/ goStartTask(p, FALSE)
        \/ goStartError(p)
        \/ \E r \in Results : goAgentPrimary(p, r, 0)
        \/ \E failed \in BOOLEAN : goVerify(p, failed)
        \/ goFinish(p)
        \/ goPersist(p)
        \/ goFinishError(p)
        \/ goSummary(p)
        \/ goSummaryError(p)

Spec == Init /\ [][Next]_vars

LoopFlags == [limit : {0, 1}, dryRun : BOOLEAN, requireCommit : BOOLEAN]
LoopInputs == {TaskInput(MaxVerify, "codex"), TaskInput(1, "claude-sonnet")}
LoopResults == {AgentOk, AgentErr({}), AgentErr({"429"}), AgentErr({"unauthorized"})}

NextLoop ==
    \/ \E cmd \in {"add", "go"} : Begin(1, cmd, LoopTasks)
    \/ acquireInstanceLock(1)
    \/ Crash(1)
    \/ \E flags \in LoopFlags : loadTasks(1, flags)
    \/ \E a \in LoopInputs : addTasks(1, <<a>>)
    \/ goLoopExit(1)
    \/ goDryRun(1)
    \/ \E probeErr \in BOOLEAN : goStartTask(1, probeErr)
    \/ goStartError(1)
    \/ \E r \in LoopResults, commits \in {0, 1} : goAgentPrimary(1, r, commits)
    \/ \E isErr \in BOOLEAN, commits \in {0, 1} : goAgentFallback(1, isErr, commits)
    \/ \E failed \in BOOLEAN : goVerify(1, failed)
    \/ \E probeErr \in BOOLEAN : goGate(1, probeErr)
    \/ goFinish(1)
    \/ goPersist(1)
    \/ goFinishError(1)
    \/ goSummary(1)
    \/ goSummaryError(1)

SpecLoop == Init /\ [][NextLoop]_vars

\* the steps of cmdGo once it has loaded the queue; each is taken if the
\* agent, verify, git or file-system call it waits for returns
LoopStep ==
    \/ goLoopExit(1)
    \/ goDryRun(1)
    \/ \E probeErr \in BOOLEAN : goStartTask(1, probeErr)
    \/ \E r \in LoopResults, commits \in {0, 1} : goAgentPrimary(1, r, commits)
    \/ \E isErr \in BOOLEAN, commits \in {0, 1} : goAgentFallback(1, isErr, commits)
    \/ \E failed \in BOOLEAN : goVerify(1, failed)
    \/ \E probeErr \in BOOLEAN : goGate(1, probeErr)
    \/ goFinish(1)
    \/ goPersist(1)
    \/ goSummary(1)

\* SpecLoop in which every call the loop waits for returns
SpecLoopFair == SpecLoop /\ WF_vars(LoopStep)

----------------------------------------------------------------------------
(* SpecSave: two process slots run add, add-batch, reset and skip, with    *)
(* saveTasks taken step by step and a crash possible between any two.      *)

NextSave ==
    \E p \in Procs :
        \/ \E cmd \in {"add", "add-batch", "reset", "skip"} : Begin(p, cmd, MaxTasks)
        \/ acquireInstanceLock(p)
        \/ acquireTimeout(p)
        \/ Crash(p)
        \/ loadTasks(p, NoFlags)
        \/ \E a \in Inputs : addTasksStage(p, <<a>>)
        \/ \E a \in Inputs, b \in Inputs : addTasksStage(p, <<a, b>>)
        \/ \E id \in 1..MaxTasks : cmdResetStage(p, id)
        \/ \E id \in 1..MaxTasks : cmdSkipStage(p, id)
        \/ saveCreate(p)
        \/ saveEncode(p)
        \/ saveEncodeError(p)
        \/ saveCloseError(p)
        \/ saveRename(p)

SpecSave == Init /\ [][NextSave]_vars

----------------------------------------------------------------------------
(* nextRunnableTaskIndex as a function: SpecPick draws a task list and a   *)
(* cap and applies the function once.                                      *)

QueryTasks ==
    [id : {1}, verify : {VerifyList(1)}, status : Statuses, model_hint : {"codex"},
     attempts : 0..MaxQAttempts, last_error : {NoErr}, priority : {"low", "high"}]

QueryLists == UNION {[1..n -> QueryTasks] : n \in 0..MaxQLen}

InitPick ==
    /\ InitState
    /\ q \in [tasks : QueryLists, cap : 1..(MaxQAttempts + 1), result : {-1}]

Pick ==
    /\ q.result = -1
    /\ q' = [q EXCEPT !.result = nextRunnableTaskIndex(q.tasks)]
    /\ UNCHANGED <<files, lockFile, proc, sync, lastWrite, tmp>>

SpecPick == InitPick /\ [][Pick]_vars

----------------------------------------------------------------------------
(* classifyProviderFailure and selectFallback as functions: SpecFun draws  *)
(* the arguments of one call and applies the function once.                *)

\* phrases of error texts and outputs
MsgWords ==
    {"429", "Too Many Requests", "QUOTA", "billing", "unknown model",
     "service unavailable", "Unauthorized", "syntax error"}

ClassifyQueries ==
    [fn : {"classifyProviderFailure"}, isErr : BOOLEAN, msg : SUBSET MsgWords,
     done : {FALSE}, result : {""}]

FallbackQueries ==
    [fn : {"selectFallback"}, provider : {"codex", "claude", "gemini", ""},
     model : {"", "opus", "sonnet", "haiku", "gpt-5"},
     done : {FALSE}, result : {NoFallback}]

InitFun ==
    /\ InitState
    /\ q \in ClassifyQueries \cup FallbackQueries

Classify ==
    /\ q.fn = "classifyProviderFailure"
    /\ ~q.done
    /\ q' = [q EXCEPT !.done = TRUE,
                      !.result = classifyProviderFailure(q.isErr, q.msg)]
    /\ UNCHANGED <<files, lockFile, proc, sync, lastWrite, tmp>>

Fallback ==
    /\ q.fn = "selectFallback"
    /\ ~q.done
    /\ q' = [q EXCEPT !.done = TRUE,
                      !.result = selectFallback(q.provider, q.model)]
    /\ UNCHANGED <<files, lockFile, proc, sync, lastWrite, tmp>>

NextFun == Classify \/ Fallback

SpecFun == InitFun /\ [][NextFun]_vars

----------------------------------------------------------------------------
(* Input validation of add and add-batch: SpecAdd runs the two commands    *)
(* from their arguments, which q keeps together with what validation made  *)
(* of them.                                                                *)

\* strings.TrimSpace is not applied
noTrim(s) == s

\* strings.TrimSpace, on the strings of the arguments
TrimSpace(s) ==
    CASE s = " " -> ""
      [] s = " t " -> "t"
      [] s = " v " -> "v"
      [] s = " codex " -> "codex"
      [] OTHER -> s

NoInput == [title |-> "", spec |-> "", verify |-> <<>>, model_hint |-> ""]

\* the verify of a batch item is absent, a JSON string or a JSON array
parseVerify(raw) ==
    IF raw.kind = "missing"
    THEN [err |-> "verify is required", out |-> <<>>]
    ELSE IF raw.kind = "string"
    THEN IF TrimSpace(raw.s) = ""
         THEN [err |-> "verify cannot be empty", out |-> <<>>]
         ELSE [err |-> "", out |-> <<TrimSpace(raw.s)>>]
    ELSE LET out == SelectSeq([k \in 1..Len(raw.a) |-> TrimSpace(raw.a[k])],
                              LAMBDA v : v # "")
         IN IF out = <<>>
            THEN [err |-> "verify cannot be empty", out |-> <<>>]
            ELSE [err |-> "", out |-> out]

normalizeInput(raw) ==
    LET v == parseVerify(raw.verify)
    IN IF v.err # ""
       THEN [err |-> v.err, input |-> NoInput]
       ELSE IF TrimSpace(raw.title) = "" \/ TrimSpace(raw.spec) = "" \/ Len(v.out) = 0
       THEN [err |-> "title, spec, and verify are required", input |-> NoInput]
       ELSE IF TrimSpace(raw.model_hint) = ""
       THEN [err |-> "model_hint is required", input |-> NoInput]
       ELSE [err |-> "",
             input |-> [title |-> raw.title, spec |-> raw.spec, verify |-> v.out,
                        model_hint |-> TrimSpace(raw.model_hint)]]

\* the first item that normalizeInput rejects ends parseBatch
parseBatch(raws) ==
    LET bad == {k \in 1..Len(raws) : normalizeInput(raws[k]).err # ""}
    IN IF bad # {}
       THEN [err |-> normalizeInput(raws[Min(bad)]).err, inputs |-> <<>>]
       ELSE [err |-> "", inputs |-> [k \in 1..Len(raws) |-> normalizeInput(raws[k]).input]]

\* cmdAdd up to the call of addTasks: flag parsing (stringList.Set refuses a
\* blank --verify) and the two checks
addFlags(args) ==
    IF \E k \in 1..Len(args.verify.a) : TrimSpace(args.verify.a[k]) = ""
    THEN [err |-> "empty value", inputs |-> <<>>]
    ELSE IF \/ TrimSpace(args.title) = ""
            \/ TrimSpace(args.spec) = ""
            \/ Len(args.verify.a) = 0
    THEN [err |-> "title, spec, and at least one --verify are required", inputs |-> <<>>]
    ELSE IF TrimSpace(args.model_hint) = ""
    THEN [err |-> "model_hint is required (use --model to specify)", inputs |-> <<>>]
    ELSE [err |-> "",
          inputs |-> <<[title |-> args.title, spec |-> args.spec,
                        verify |-> args.verify.a, model_hint |-> args.model_hint]>>]

\* the command validates its arguments; if they pass, it goes on to addTasks
validated(p, cmd, raws, r) ==
    /\ proc[p].pc = "idle"
    /\ r.err = "" => Len(disk) + Len(raws) <= MaxTasks
    /\ q' = [cmd |-> cmd, raws |-> raws, err |-> r.err, inputs |-> r.inputs]
    /\ proc' = IF r.err # "" THEN proc
               ELSE [proc EXCEPT ![p] = [IdleProc EXCEPT !.pc = "lock", !.cmd = cmd]]
    /\ UNCHANGED <<files, lockFile, sync, lastWrite, tmp>>

cmdAdd(p, args) == validated(p, "add", <<args>>, addFlags(args))

cmdAddBatch(p, raws) == validated(p, "add-batch", raws, parseBatch(raws))

\* the arguments of add: --title, --spec, --model and the --verify flags
AddArgs ==
    [title : {" ", " t "}, spec : {"", "s"}, model_hint : {" ", " codex "},
     verify : [kind : {"flags"}, a : {<<>>, <<" ">>, <<"v">>}]]

\* the items of a batch
RawInputs ==
    [title : {" ", " t "}, spec : {"", "s"}, model_hint : {" ", " codex "},
     verify : {[kind |-> "missing"], [kind |-> "string", s |-> " "],
               [kind |-> "array", a |-> <<" ", "v">>]}]

NextAdd ==
    \/ proc[1].pc = "idle" /\ \E args \in AddArgs : cmdAdd(1, args)
    \/ proc[1].pc = "idle" /\ \E a \in RawInputs, b \in RawInputs : cmdAddBatch(1, <<a, b>>)
    \/ acquireInstanceLock(1)
    \/ Crash(1)
    \/ loadTasks(1, NoFlags)
    \/ addTasks(1, q.inputs)

\* no add or add-batch has been invoked yet
NoCall == [cmd |-> "", raws |-> <<>>, err |-> "", inputs |-> <<>>]

InitAdd == InitState /\ q = NoCall

SpecAdd == InitAdd /\ [][NextAdd]_vars

----------------------------------------------------------------------------
(* acquireInstanceLock poll by poll: in SpecLock two processes run add,    *)
(* reset and skip, and q counts the sleeps of each acquisition and keeps   *)
(* how it ended.                                                           *)

\* the sleeps that fit in lockWaitMax (lockWaitMax / lockWaitStep, scaled)
MaxPolls == 2

NoPolls == [polls |-> [p \in Procs |-> 0], out |-> [p \in Procs |-> ""]]

InitLock == InitState /\ q = NoPolls

\* time.Since(start) > lockWaitMax, after so many sleeps of lockWaitStep
waitedTooLong(polls) == polls >= MaxPolls

\* os.OpenFile with O_EXCL succeeds: the pid is written, release is returned
acquireTry(p) ==
    /\ proc[p].pc = "lock"
    /\ ExclCreate(lockFile)
    /\ lockFile' = TRUE
    /\ proc' = [proc EXCEPT ![p].pc = "load", ![p].held = TRUE]
    /\ q' = [q EXCEPT !.polls[p] = 0, !.out[p] = "acquired"]
    /\ UNCHANGED <<files, sync, lastWrite, tmp>>

\* the file exists and the ceiling is not reached: time.Sleep(lockWaitStep)
acquireSleep(p) ==
    /\ proc[p].pc = "lock"
    /\ ~ExclCreate(lockFile)
    /\ ~waitedTooLong(q.polls[p])
    /\ q' = [q EXCEPT !.polls[p] = @ + 1]
    /\ UNCHANGED <<files, lockFile, proc, sync, lastWrite, tmp>>

\* the file exists and the ceiling is reached: the command returns the error
acquireTimedOut(p) ==
    /\ proc[p].pc = "lock"
    /\ ~ExclCreate(lockFile)
    /\ waitedTooLong(q.polls[p])
    /\ Return(p)
    /\ q' = [q EXCEPT !.polls[p] = 0, !.out[p] = "timed out waiting for lock"]
    /\ UNCHANGED <<files, lastWrite, tmp>>

NextLock ==
    \E p \in Procs :
        \/ \E cmd \in {"add", "reset", "skip"} : Begin(p, cmd, MaxTasks)
        \/ acquireTry(p)
        \/ acquireSleep(p)
        \/ acquireTimedOut(p)
        \/ loadTasks(p, NoFlags)
        \/ \E a \in Inputs : addTasks(p, <<a>>)
        \/ \E id \in 1..MaxTasks : cmdReset(p, id)
        \/ \E id \in 1..MaxTasks : cmdSkip(p, id)

SpecLock == InitLock /\ [][NextLock]_vars

----------------------------------------------------------------------------
(* The release closure called twice: SpecRelease is SpecLock with one more *)
(* step, a second call of the closure that acquireInstanceLock returned,   *)
(* after the deferred call.                                                *)

\* a call of the closure puts the lock file back if it is gone
lockReleaseToggles(exists) == ~exists

\* func() { _ = os.Remove(lockPath) }: the file is gone afterwards, and the
\* error of removing a file that is not there is dropped
lockRelease(exists) == FALSE

\* the closure of p's last acquisition is called once more
releaseAgain(p) ==
    /\ proc[p].pc = "idle"
    /\ q.out[p] = "acquired"
    /\ lockFile' = lockRelease(lockFile)
    /\ q' = [q EXCEPT !.out[p] = "released again"]
    /\ UNCHANGED <<files, proc, sync, lastWrite, tmp>>

NextRelease ==
    \/ NextLock
    \/ \E p \in Procs : releaseAgain(p)

SpecRelease == InitLock /\ [][NextRelease]_vars

----------------------------------------------------------------------------
(* Commands on a tasks.jsonl that may hold a line that is not a task (the  *)
(* file was edited by hand): SpecLoad starts from such files and runs      *)
(* every command up to its first use of the queue; q keeps the last parse  *)
(* error.                                                                  *)

NoParseError == [cmd |-> "", line |-> 0]

\* loadTasks returns "tasks parse line %d" and the command returns it
loadTasksError(p) ==
    /\ proc[p].pc = "load"
    /\ parseErrorLine(disk) # 0
    /\ Return(p)
    /\ q' = [cmd |-> proc[p].cmd, line |-> parseErrorLine(disk)]
    /\ UNCHANGED <<files, lastWrite, tmp>>

\* the lines a hand-edited file may hold at position k
FileLine(k) ==
    {[Task(k, VerifyList(1), "codex") EXCEPT !.status = st] : st \in {statusTodo, statusDone}}
        \cup {BadLine}

EditedFiles ==
    {<<>>} \cup {<<a>> : a \in FileLine(1)}
           \cup {<<a, b>> : a \in FileLine(1), b \in FileLine(2)}

InitLoad ==
    /\ disk \in EditedFiles
    /\ runs = <<>>
    /\ cycleLog = <<>>
    /\ lockFile = FALSE
    /\ head = 1
    /\ proc = [p \in Procs |-> IdleProc]
    /\ sync = [p \in Procs |-> FALSE]
    /\ lastWrite = NoWrite
    /\ tmp = NoTmp
    /\ q = NoParseError

DryFlags == [limit : {0, 1}, dryRun : {TRUE}, requireCommit : {FALSE}]

NextLoad ==
    \E p \in Procs :
        \/ \E cmd \in Commands : Begin(p, cmd, MaxTasks)
        \/ acquireInstanceLock(p)
        \/ acquireTimeout(p)
        \/ \E flags \in DryFlags \cup {NoFlags} : loadTasks(p, flags)
        \/ loadTasksError(p)
        \/ \E a \in Inputs : addTasks(p, <<a>>)
        \/ \E a \in Inputs, b \in Inputs : addTasks(p, <<a, b>>)
        \/ \E id \in 1..(MaxTasks + 1) : cmdReset(p, id)
        \/ \E id \in 1..(MaxTasks + 1) : cmdSkip(p, id)
        \/ goLoopExit(p)
        \/ goDryRun(p)
        \/ goSummary(p)

SpecLoad == InitLoad /\ [][NextLoad]_vars

----------------------------------------------------------------------------
(* Claims *)

Tasks(tasks) == 1..Len(tasks)
InProgress(tasks) == {i \in Tasks(tasks) : tasks[i].status = statusInProgress}

\* the agent invocation that counts (the last one of the iteration) returned
\* without error
AgentSucceeded(me) == me.calls # <<>> /\ ~me.calls[Len(me.calls)].isErr

\* every verify command of the task was run, in order, and exited zero
AllVerifiesPassed(me) ==
    LET verify == me.tasks[me.idx].verify
    IN me.vlog = [k \in 1..Len(verify) |-> [cmd |-> verify[k], failed |-> FALSE]]

\* this step is the persist of the final state of p's iteration
PersistStep(p) == proc[p].pc = "persist" /\ proc'[p].pc = "select"

\* task i is done on disk after this step and was not before it
BecomesDone(i) ==
    /\ i \in Tasks(disk')
    /\ disk'[i].status = statusDone
    /\ i \in Tasks(disk) => disk[i].status # statusDone

\* C1: a task becomes done on disk only by the persist of a loop iteration
\* on that task whose last agent invocation returned without error and whose
\* verify commands were all run in order and exited zero; every other
\* iteration leaves its task not done.
C1_VerificationGatesDone ==
    [][\A i \in Tasks(disk') :
          BecomesDone(i) =>
              \E p \in Procs : /\ PersistStep(p)
                               /\ proc[p].idx = i
                               /\ AgentSucceeded(proc[p])
                               /\ AllVerifiesPassed(proc[p])]_vars

\* a task is done on disk, its run went through the fallback agent and two
\* verify commands
C1_Witness ==
    /\ disk # <<>>
    /\ disk[1].status = statusDone
    /\ Len(disk[1].verify) = 2
    /\ runs # <<>>
    /\ runs[Len(runs)].status = statusDone
    /\ runs[Len(runs)].fallback_reason # ""

\* C2: when a go invocation is selecting a task, no task is in_progress on
\* disk (every stale in_progress task was reset to todo at its start).
C2_NoneInProgressWhenSelecting ==
    \A p \in Procs : proc[p].pc = "select" => InProgress(disk) = {}

\* C3: at most one task of the instance is in_progress on disk.
C3_AtMostOneInProgress == Cardinality(InProgress(disk)) <= 1

\* C4: no persisted task with attempts >= maxAttempts is todo or failed; a
\* task whose attempts has reached the cap is blocked.
C4_CapReachedIsBlocked ==
    \A i \in Tasks(disk) :
        disk[i].attempts >= maxAttempts => disk[i].status = statusBlocked

\* a task was driven to the cap by the loop
C4_Witness ==
    \E i \in Tasks(disk) :
        /\ disk[i].attempts = maxAttempts
        /\ disk[i].status = statusBlocked
        /\ disk[i].last_error # ErrSkipped

\* C5: the persist of an iteration that ended in a failure increments the
\* task's attempts by exactly 1, sets last_error to the error and makes the
\* task blocked if the new attempts >= maxAttempts, failed otherwise.
C5_FailureCountsOneAttempt ==
    [][\A p \in Procs :
          PersistStep(p) /\ proc[p].execErr # NoErr =>
              LET i == proc[p].idx
              IN /\ disk'[i].attempts = disk[i].attempts + 1
                 /\ disk'[i].last_error = proc[p].execErr
                 /\ disk'[i].status =
                        IF disk'[i].attempts >= maxAttempts
                        THEN statusBlocked ELSE statusFailed]_vars

\* the loop has blocked a task whose second failure was a verify failure
C5_Witness ==
    /\ disk # <<>>
    /\ disk[1].status = statusBlocked
    /\ disk[1].attempts = 2
    /\ disk[1].last_error.kind = "verify failed"
    /\ Len(runs) = 2
    /\ runs[1].status = statusFailed

NextRunnableFor(tasks, K) ==
    LET todo == {i \in Tasks(tasks) : tasks[i].status = statusTodo}
        retry == {i \in Tasks(tasks) :
                    tasks[i].status = statusFailed /\ tasks[i].attempts < K}
    IN IF todo # {} THEN Min(todo)
       ELSE IF retry # {} THEN Min(retry)
       ELSE 0

\* C7: for every task list and every cap K the function returns the lowest
\* todo index, else the lowest failed index with attempts < K, else none.
C7_NextRunnableForEveryCap ==
    q.result # -1 => q.result = NextRunnableFor(q.tasks, q.cap)

\* C8: at most one process holds the instance lock, and the lock file
\* exists while it does.
C8_LockMutualExclusion ==
    /\ Cardinality({p \in Procs : proc[p].held}) <= 1
    /\ (\E p \in Procs : proc[p].held) => lockFile

\* one process holds the lock while the other is trying to acquire it
C8_Witness ==
    \E p \in Procs, r \in Procs :
        /\ proc[p].held
        /\ proc[p].cmd = "go"
        /\ proc[r].pc = "lock"
        /\ proc[r].cmd = "go"

\* C9: the loop does not hold the instance lock while an agent runs.
C9_LockReleasedDuringAgent ==
    \A p \in Procs : proc[p].pc \in {"agent", "fallback"} => ~proc[p].held

\* C10: every rewrite of tasks.jsonl is made by a process that holds the
\* lock and writes back the queue it read in that same lock window, no other
\* process having rewritten the file in between.
C10_ReadModifyWriteInOneWindow == lastWrite.safe

\* a go loop has persisted the final state of a task while an
\* administrative command was waiting for the lock
C10_Witness ==
    /\ lastWrite.written
    /\ \E p \in Procs, r \in Procs :
          /\ proc[p].cmd = "go"
          /\ proc[p].processed >= 1
          /\ ~proc[p].dryRun
          /\ proc[r].pc = "lock"
          /\ proc[r].cmd \in {"add", "reset", "skip"}

\* C11: tasks.jsonl changes only by the rename that ends a save, and then
\* to the complete queue being saved: at every point of a save, and after a
\* crash at any of them, the file holds the whole prior queue or the whole
\* new one.
C11_SaveIsAtomic ==
    [][disk' # disk =>
          \E p \in Procs : /\ proc[p].pc = "encode"
                           /\ proc'[p].pc = "idle"
                           /\ disk' = proc[p].tasks]_vars

\* a skip crashed in the middle of the encoding: the temporary file holds
\* one line of the new queue, tasks.jsonl the two lines of the prior one
C11_Witness ==
    /\ \A p \in Procs : proc[p].pc = "idle"
    /\ lockFile
    /\ tmp.exists
    /\ Len(tmp.lines) = 1
    /\ Len(disk) = 2
    /\ tmp.lines[1] # disk[1]

\* transient tags, as the tests of isTransientFailure list them
isTransientFailure(tag) == tag \in {"rate_limit", "provider_unavailable"}

\* --max-transient-retries, default
maxTransientRetries == 3

\* C12: the loop proceeds to the fallback agent after a transient failure of
\* the primary only once the primary has been retried, at least once and at
\* most maxTransientRetries times, within the iteration.
C12_TransientRetriesPrimary ==
    \A p \in Procs :
        LET me == proc[p]
        IN (/\ me.pc = "fallback"
            /\ isTransientFailure(classifyProviderFailure(me.out1.isErr, me.out1.msg)))
           => Len(me.calls) \in 2..(1 + maxTransientRetries)

\* the tag of the k-th agent invocation of the iteration
TagOf(c) == classifyProviderFailure(c.isErr, c.msg)

\* C13: an iteration invokes at most two agents; a second one only after a
\* primary that returned an error with a non-empty tag, and it is the
\* fallback pair of the primary; after an error with the empty tag the
\* iteration ends with the primary's error, which is charged as an attempt.
C13_FallbackAtMostOnce ==
    \A p \in Procs :
        LET me == proc[p]
            c == me.calls
        IN /\ Len(c) <= 2
           /\ Len(c) = 2 =>
                 LET fbk == selectFallback(c[1].provider, c[1].model)
                 IN /\ c[1].isErr
                    /\ TagOf(c[1]) # ""
                    /\ fbk.ok
                    /\ c[2].provider = fbk.provider
                    /\ c[2].model = fbk.model
           /\ (Len(c) = 1 /\ c[1].isErr /\ me.pc \in {"finish", "persist"}) =>
                 me.execErr = ErrAgent
           /\ (Len(c) = 1 /\ c[1].isErr /\ me.pc = "persist") =>
                 /\ me.tasks[me.idx].attempts = disk[me.idx].attempts + 1
                 /\ me.tasks[me.idx].last_error = ErrAgent

\* the primary failed with an auth error, the fallback agent failed too and
\* the task was charged one attempt
C13_Witness ==
    \E p \in Procs :
        LET me == proc[p]
        IN /\ me.pc = "persist"
           /\ Len(me.calls) = 2
           /\ TagOf(me.calls[1]) = "auth"
           /\ me.calls[2].isErr
           /\ me.execErr = ErrFallback
           /\ me.tasks[me.idx].attempts = 1

\* C14: a task left in_progress by a go that died can be recovered by the
\* next go: while a task is in_progress on disk the lock file does not
\* outlive its holder, and a go that has loaded the queue and is about to
\* select its first task has no in_progress task.
C14_NextGoRecoversCrashedTask ==
    /\ (InProgress(disk) # {} /\ lockFile) => \E p \in Procs : proc[p].held
    /\ \A p \in Procs :
          (proc[p].cmd = "go" /\ proc[p].pc = "select" /\ proc[p].processed = 0)
          => InProgress(proc[p].tasks) = {}

\* C15: when a run record is appended, its task is already persisted in the
\* terminal state the record reports.
C15_RunRecordAfterTerminalState ==
    [][Len(runs') > Len(runs) =>
          LET r == runs'[Len(runs')]
          IN \E i \in Tasks(disk) : /\ disk[i].id = r.task_id
                                    /\ disk[i].status = r.status]_vars

\* C16: a go invocation that has entered the loop ends, whichever way it
\* ends, by appending one line to cycle.log.
C16_OneCycleLinePerGo ==
    [][\A p \in Procs :
          (/\ proc[p].cmd = "go"
           /\ proc[p].pc \notin {"idle", "lock", "load"}
           /\ proc'[p].pc = "idle")
          => /\ Len(cycleLog') = Len(cycleLog) + 1
             /\ UNCHANGED <<disk, runs>>]_vars

\* C17: the ids of tasks.jsonl are strictly increasing, and a step that adds
\* tasks keeps the tasks the file had and gives the new ones the ids
\* max + 1, max + 2, ... above the ids the file had.
C17_IdsUniqueIncreasing ==
    [][/\ \A i \in Tasks(disk'), j \in Tasks(disk') :
             i < j => disk'[i].id < disk'[j].id
       /\ Len(disk') > Len(disk) =>
             /\ SubSeq(disk', 1, Len(disk)) = disk
             /\ \A k \in (Len(disk) + 1)..Len(disk') :
                   disk'[k].id = Max({disk[i].id : i \in Tasks(disk)})
                                    + (k - Len(disk))]_vars

\* an add has given the second task its id after the loop has run the first
C17_Witness ==
    /\ Len(disk) = 2
    /\ disk[1].id = 1
    /\ disk[2].id = 2
    /\ disk[1].status = statusDone
    /\ disk[2].status = statusTodo

\* C18: a reset that changes tasks.jsonl changes one task, to todo with
\* attempts 0 and no last_error, and no other task; resetting a task again
\* changes nothing more.
C18_ResetYieldsTodo ==
    [][/\ \A p \in Procs :
             (/\ proc[p].cmd = "reset"
              /\ proc[p].pc = "apply"
              /\ proc'[p].pc = "idle"
              /\ disk' # disk)
             => \E i \in Tasks(disk) :
                   disk' = [disk EXCEPT ![i] =
                                  [@ EXCEPT !.status = statusTodo,
                                            !.attempts = 0,
                                            !.last_error = NoErr]]
       /\ \A i \in Tasks(disk) :
             resetTask(resetTask(disk[i])) = resetTask(disk[i])]_vars

\* a task the loop had blocked after two failures is todo again, with
\* attempts 0 and no last_error
C18_Witness ==
    /\ Len(runs) = 2
    /\ runs[2].status = statusBlocked
    /\ \E i \in Tasks(disk) : /\ disk[i].id = runs[2].task_id
                              /\ disk[i].status = statusTodo
                              /\ disk[i].attempts = 0
                              /\ disk[i].last_error = NoErr

\* C19: the persist of an iteration that succeeded changes its task to done
\* with no last_error, leaves its attempts as they were and leaves every
\* other task as it was.
C19_SuccessKeepsAttempts ==
    [][\A p \in Procs :
          (PersistStep(p) /\ proc[p].execErr = NoErr)
          => disk' = [disk EXCEPT ![proc[p].idx] =
                         [@ EXCEPT !.status = statusDone, !.last_error = NoErr]]]_vars

\* a task that failed once is done after its retry, attempts still 1, next
\* to another task
C19_Witness ==
    /\ Len(disk) = 2
    /\ \E i \in Tasks(disk) : /\ disk[i].status = statusDone
                              /\ disk[i].attempts = 1
                              /\ disk[i].last_error = NoErr
    /\ Len(runs) = 2
    /\ runs[1].status = statusFailed
    /\ runs[2].status = statusDone

\* C20: a go invocation runs a task at most once, so that a task whose
\* verify fails is failed with attempts 1 at the end of the first go and
\* blocked only by a second go.
C20_OneAttemptPerGo ==
    \A p \in Procs :
        proc[p].cmd = "go" =>
            \A i \in 1..Len(proc[p].taskIDs), j \in 1..Len(proc[p].taskIDs) :
                i # j => proc[p].taskIDs[i] # proc[p].taskIDs[j]

\* C21: with --require-commit the pre-task head is the head before the
\* agent is invoked; an iteration ends without error only if the pre-task
\* probe succeeded and the head differs from the pre-task head; an iteration
\* whose agent and verifies succeeded but whose head is unchanged, or whose
\* pre-task or post-task probe failed, is charged as an attempt.
C21_CommitGate ==
    [][\A p \in Procs :
          LET me == proc[p]
          IN me.requireCommit =>
                /\ (me.pc = "agent" /\ ~me.headBeforeErr) => me.headBefore = head
                /\ PersistStep(p) =>
                      /\ me.execErr = NoErr =>
                            /\ ~me.headBeforeErr
                            /\ me.headBefore # 0
                            /\ head # me.headBefore
                      /\ (/\ AgentSucceeded(me)
                          /\ AllVerifiesPassed(me)
                          /\ (me.headBeforeErr \/ head = me.headBefore)) =>
                            /\ me.execErr \in {ErrHeadBefore, ErrNoCommit, ErrHeadAfter}
                            /\ disk'[me.idx].attempts = disk[me.idx].attempts + 1
                            /\ disk'[me.idx].status # statusDone
                      /\ me.execErr = ErrHeadAfter =>
                            /\ disk'[me.idx].attempts = disk[me.idx].attempts + 1
                            /\ disk'[me.idx].status # statusDone]_vars

\* a task is done under --require-commit after its agent committed, and
\* another iteration was failed for want of a commit
C21_Witness ==
    /\ Len(runs) = 2
    /\ runs[1].error = ErrNoCommit
    /\ runs[2].status = statusDone
    /\ head = 2
    /\ \E p \in Procs : proc[p].requireCommit /\ proc[p].processed = 2

\* the places of a go invocation between the start of a task and the
\* persist of its final state
MidTask == {"agent", "fallback", "verify", "gate", "finish", "persist"}

\* C22: a go invocation that has started a task does not exit before the
\* task's final state and run record are persisted (an interrupt takes
\* effect only between tasks, and then through the cycle summary).
C22_InterruptFinishesCurrentTask ==
    [][\A p \in Procs :
          (proc[p].cmd = "go" /\ proc[p].pc \in MidTask) => proc'[p].pc # "idle"]_vars

\* C23: a task is in_progress on disk only while a go invocation is running
\* it: once the go has exited, interrupted or not, none is.
C23_NoInProgressAfterExit ==
    InProgress(disk) # {} =>
        \E p \in Procs : proc[p].cmd = "go" /\ proc[p].pc \in MidTask

\* C24: at most one go invocation of the instance is running a task (its
\* agent, its verifies, its commit gate) at any moment.
C24_OneTaskAtATime ==
    Cardinality({p \in Procs : proc[p].cmd = "go" /\ proc[p].pc \in MidTask}) <= 1

\* a go is running the verify of a task while another go, started
\* concurrently, waits for the lock
C24_Witness ==
    \E p \in Procs, r \in Procs :
        /\ proc[p].cmd = "go"
        /\ proc[p].pc = "verify"
        /\ proc[r].cmd = "go"
        /\ proc[r].pc = "lock"

\* C25: every step keeps the tasks of tasks.jsonl in place, with their ids,
\* and can only add tasks after them; every step keeps the records of
\* runs.jsonl as they are and can only add records after them.
C25_TasksAndRunsOnlyGrow ==
    [][/\ Len(disk) <= Len(disk')
       /\ \A i \in Tasks(disk) : disk'[i].id = disk[i].id
       /\ Len(runs) <= Len(runs')
       /\ SubSeq(runs', 1, Len(runs)) = runs]_vars

\* add, go, skip and a second add have all acted on the instance
C25_Witness ==
    /\ Len(disk) = 2
    /\ Len(runs) = 2
    /\ disk[1].last_error = ErrSkipped
    /\ disk[1].attempts = 1
    /\ disk[2].status = statusDone

\* the keyword families of the classifier, in their order
Families ==
    << <<"rate_limit", {"rate limit", "rate-limited", "too many requests", "429"}>>,
       <<"quota", {"usage limit", "quota", "daily limit", "weekly limit", "monthly limit"}>>,
       <<"billing", {"billing", "payment", "insufficient credits"}>>,
       <<"model_unavailable", {"model", "not exist", "not have access", "unknown model"}>>,
       <<"provider_unavailable", {"temporarily unavailable", "service unavailable", "overloaded"}>>,
       <<"auth", {"auth", "unauthorized", "forbidden", "login required"}>> >>

\* keyword k occurs in the text, whatever the case the text is written in
Occurs(k, msg) ==
    \E w \in msg : lower(w) = k \/ <<k, lower(w)>> \in SubstringOf

\* the tag of the first family with a keyword occurring in the text
FirstMatch(msg) ==
    LET hits == {i \in 1..Len(Families) : \E k \in Families[i][2] : Occurs(k, msg)}
    IN IF hits = {} THEN "" ELSE Families[Min(hits)][1]

\* C26: for a non-nil error the classifier returns the tag of the first
\* family, in the order of the families, with a keyword occurring
\* case-insensitively in the text, the empty tag if there is none; for a nil
\* error it returns the empty tag.
C26_ClassifyFirstMatch ==
    (q.fn = "classifyProviderFailure" /\ q.done) =>
        q.result = IF q.isErr THEN FirstMatch(q.msg) ELSE ""

\* a text with a capitalised auth phrase and a model phrase is classified
\* by the earlier family
C26_Witness ==
    /\ q.fn = "classifyProviderFailure"
    /\ q.done
    /\ q.isErr
    /\ q.msg = {"Unauthorized", "unknown model"}
    /\ q.result = "model_unavailable"

\* C27: selectFallback gives (claude, sonnet) for codex and (codex, default
\* model) for claude, whatever the primary model, and nothing for any other
\* provider; a fallback is never the primary's provider and never opus.
C27_SelectFallback ==
    (q.fn = "selectFallback" /\ q.done) =>
        /\ q.provider = "codex" =>
              q.result = [provider |-> "claude", model |-> "sonnet", ok |-> TRUE]
        /\ q.provider = "claude" =>
              q.result = [provider |-> "codex", model |-> "", ok |-> TRUE]
        /\ q.provider \notin {"codex", "claude"} => ~q.result.ok
        /\ q.result.ok => /\ q.result.provider # q.provider
                          /\ q.result.model # "opus"

\* the fallback of codex with a model of its own
C27_Witness ==
    /\ q.fn = "selectFallback"
    /\ q.done
    /\ q.provider = "codex"
    /\ q.model = "gpt-5"
    /\ q.result.provider = "claude"

\* C28: the run record appended by an iteration names the task and the
\* routed primary; if the fallback agent was invoked, its provider and model
\* are the fallback's, as are fallback_provider and fallback_model, and
\* fallback_reason is the tag of the primary's failure; if not, its provider
\* and model are the primary's and the fallback fields are empty.
C28_RunRecordProviders ==
    [][Len(runs') > Len(runs) =>
          \E p \in Procs :
              LET me == proc[p]
                  r == runs'[Len(runs')]
                  t == me.tasks[me.idx]
                  primary == routeModel(t.model_hint)
                  c == me.calls
              IN /\ me.pc = "finish"
                 /\ r.task_id = t.id
                 /\ r.primary_provider = primary.provider
                 /\ r.primary_model = primary.model
                 /\ c[1].provider = primary.provider
                 /\ c[1].model = primary.model
                 /\ IF Len(c) = 2
                    THEN /\ r.provider = c[2].provider
                         /\ r.model = c[2].model
                         /\ r.fallback_provider = c[2].provider
                         /\ r.fallback_model = c[2].model
                         /\ r.fallback_reason = TagOf(c[1])
                         /\ r.fallback_reason # ""
                    ELSE /\ r.provider = primary.provider
                         /\ r.model = primary.model
                         /\ r.fallback_provider = ""
                         /\ r.fallback_model = ""
                         /\ r.fallback_reason = ""]_vars

\* codex failed with an auth error and claude ran the task
C28_Witness ==
    /\ Len(runs) >= 1
    /\ runs[1].primary_provider = "codex"
    /\ runs[1].provider = "claude"
    /\ runs[1].model = "sonnet"
    /\ runs[1].fallback_reason = "auth"

\* C29: verify commands are run only after the agent succeeded and in list
\* order; only the last command run can have failed, and then no further one
\* is run, the run record's verify_failed is that command, and the task's
\* last_error, in memory and as persisted, is "verify failed" of that command.
C29_VerifyHaltsAtFirstFailure ==
    /\ [](\A p \in Procs :
            LET me == proc[p]
                vl == me.vlog
                n == Len(vl)
                verify == me.tasks[me.idx].verify
            IN vl # <<>> =>
                 /\ me.idx # 0
                 /\ AgentSucceeded(me)
                 /\ n <= Len(verify)
                 /\ \A i \in 1..n : vl[i].cmd = verify[i]
                 /\ \A i \in 1..(n - 1) : ~vl[i].failed
                 /\ vl[n].failed =>
                      /\ me.pc \in {"finish", "persist"}
                      /\ me.run.verify_failed = vl[n].cmd
                      /\ me.pc = "finish" => me.execErr = ErrVerify(vl[n].cmd)
                      /\ me.pc = "persist" =>
                           /\ runs[Len(runs)].verify_failed = vl[n].cmd
                           /\ runs[Len(runs)].task_id = me.tasks[me.idx].id
                           /\ me.tasks[me.idx].last_error = ErrVerify(vl[n].cmd)
                 /\ ~vl[n].failed => me.run.verify_failed = 0)
    /\ [][\A p \in Procs :
            LET me == proc[p]
                vl == me.vlog
            IN (PersistStep(p) /\ vl # <<>> /\ vl[Len(vl)].failed) =>
                 disk'[me.idx].last_error = ErrVerify(vl[Len(vl)].cmd)]_vars

\* the first verify command passed, the second failed, and the task was
\* persisted with the second command in its last_error
C29_Witness ==
    /\ Len(runs) >= 1
    /\ runs[1].verify_failed = 2
    /\ 1 \in Tasks(disk)
    /\ disk[1].verify = <<1, 2>>
    /\ disk[1].last_error = ErrVerify(2)
    /\ disk[1].status = statusFailed

\* the tasks of queue d that a go would run: todo, or failed below the cap
RunnableOnDisk(d) ==
    {i \in Tasks(d) : \/ d[i].status = statusTodo
                      \/ d[i].status = statusFailed /\ d[i].attempts < maxAttempts}

\* C30: while a go in dry-run mode is running, it has invoked no agent and no
\* verify command, no step changes tasks.jsonl or appends a run record, its
\* queue in memory is the one on disk with the visited tasks marked done,
\* and it visits no task twice; when its loop has ended without a limit, the
\* tasks visited are exactly the runnable tasks of the queue on disk, each
\* once (hence the loop ends after at most that many iterations).
C30_DryRunInMemoryOnly ==
    /\ [](\A p \in Procs :
            LET me == proc[p]
                ids == me.taskIDs
                visited == {ids[k] : k \in 1..Len(ids)}
            IN (me.cmd = "go" /\ me.dryRun) =>
                 /\ me.pc \in {"select", "summary"}
                 /\ me.held
                 /\ me.calls = <<>>
                 /\ me.vlog = <<>>
                 /\ me.doneCount = 0
                 /\ Len(me.tasks) = Len(disk)
                 /\ \A k, l \in 1..Len(ids) : ids[k] = ids[l] => k = l
                 /\ me.processed = Len(ids)
                 /\ \A i \in Tasks(disk) :
                        me.tasks[i] = IF disk[i].id \in visited
                                      THEN [disk[i] EXCEPT !.status = statusDone]
                                      ELSE disk[i]
                 /\ visited \subseteq {disk[i].id : i \in RunnableOnDisk(disk)}
                 /\ (me.pc = "summary" /\ me.limit = 0) =>
                        visited = {disk[i].id : i \in RunnableOnDisk(disk)})
    /\ [][(\E p \in Procs : proc[p].cmd = "go" /\ proc[p].dryRun) =>
              /\ disk' = disk
              /\ runs' = runs]_vars

\* a dry run has visited both tasks of the queue, which are still todo on
\* disk, and its loop has ended
C30_Witness ==
    \E p \in Procs :
        /\ proc[p].cmd = "go"
        /\ proc[p].dryRun
        /\ proc[p].pc = "summary"
        /\ Len(proc[p].taskIDs) = 2
        /\ Len(disk) = 2
        /\ \A i \in Tasks(disk) : disk[i].status = statusTodo
        /\ \A i \in Tasks(disk) : proc[p].tasks[i].status = statusDone
        /\ runs = <<>>

\* C31: a go with limit N > 0 never has more than N iterations behind it or
\* under way, appends a run record only while fewer than N are behind it,
\* and reports processed <= N in its summary; a go with limit 0 leaves its
\* loop only when no task of its queue is runnable.
C31_LimitBoundsIterations ==
    /\ [](\A p \in Procs :
            LET me == proc[p]
                underWay == IF me.pc \in MidTask THEN 1 ELSE 0
            IN (me.cmd = "go" /\ me.pc \in MidTask \cup {"select", "summary"}) =>
                 /\ me.limit > 0 => me.processed + underWay <= me.limit
                 /\ me.processed = Len(me.taskIDs)
                 /\ (me.pc = "summary" /\ me.limit = 0) =>
                        RunnableOnDisk(me.tasks) = {})
    /\ [][Len(runs') > Len(runs) =>
            /\ Len(runs') = Len(runs) + 1
            /\ \E p \in Procs :
                 /\ proc[p].pc = "finish"
                 /\ proc'[p].pc = "persist"
                 /\ proc[p].limit > 0 => proc[p].processed < proc[p].limit]_vars
    /\ [][Len(cycleLog') > Len(cycleLog) =>
            \E p \in Procs :
                 /\ proc[p].pc = "summary"
                 /\ cycleLog'[Len(cycleLog')].processed = proc[p].processed
                 /\ proc[p].limit > 0 =>
                        cycleLog'[Len(cycleLog')].processed <= proc[p].limit]_vars

\* a go with limit 1 has ended its loop after one execution that failed,
\* leaving a task it could have run again
C31_Witness ==
    \E p \in Procs :
        /\ proc[p].cmd = "go"
        /\ ~proc[p].dryRun
        /\ proc[p].limit = 1
        /\ proc[p].pc = "summary"
        /\ proc[p].processed = 1
        /\ RunnableOnDisk(proc[p].tasks) # {}
        /\ Len(runs) = 1

\* a string that is empty or whitespace only (a missing one is empty)
Blank(s) == s \in {"", " "}

\* a verify that is missing, or holds no command that is not blank
BlankVerify(v) ==
    \/ v.kind = "missing"
    \/ v.kind = "string" /\ Blank(v.s)
    \/ v.kind \in {"array", "flags"} /\ \A k \in 1..Len(v.a) : Blank(v.a[k])

\* an input with a blank title, spec, verify or model_hint
BlankInput(raw) ==
    Blank(raw.title) \/ Blank(raw.spec) \/ BlankVerify(raw.verify) \/ Blank(raw.model_hint)

\* C32: an add or add-batch one of whose inputs has a blank title, spec,
\* verify or model_hint ends with a validation error and changes neither
\* tasks.jsonl nor the lock nor any process; a command that is past
\* validation has no blank input, and tasks.jsonl grows only by all the
\* inputs of such a command at once.
C32_InvalidInputAddsNothing ==
    /\ [][q' # q =>
            ((\E k \in 1..Len(q'.raws) : BlankInput(q'.raws[k])) =>
                 /\ q'.err # ""
                 /\ q'.inputs = <<>>
                 /\ proc' = proc
                 /\ disk' = disk
                 /\ lockFile' = lockFile)]_vars
    /\ [](\A p \in Procs :
            (proc[p].cmd \in {"add", "add-batch"} /\ proc[p].pc # "idle") =>
                 /\ q.err = ""
                 /\ Len(q.inputs) = Len(q.raws)
                 /\ \A k \in 1..Len(q.raws) : ~BlankInput(q.raws[k]))
    /\ [][disk' # disk =>
            /\ \A k \in 1..Len(q.raws) : ~BlankInput(q.raws[k])
            /\ Len(disk') = Len(disk) + Len(q.raws)
            /\ \A i \in Tasks(disk) : disk'[i] = disk[i]]_vars

\* a batch whose first item is complete and whose second has a blank field
\* was rejected, and the queue still holds the one task it held
C32_Witness ==
    /\ q.cmd = "add-batch"
    /\ q.err # ""
    /\ ~BlankInput(q.raws[1])
    /\ BlankInput(q.raws[2])
    /\ Len(disk) = 1
    /\ proc[1].pc = "idle"
    /\ ~lockFile

\* C33: a command leaves the acquisition with the lock-timeout error only
\* if the lock file existed at every poll up to the ceiling and another
\* process holds it; that step leaves the lock file, its holder, tasks.jsonl
\* and runs.jsonl as they were and the command ends without having held the
\* lock; a command goes on to load only from a poll that found no lock file.
C33_LockTimeoutFailsCleanly ==
    /\ [][\A p \in Procs :
            (proc[p].pc = "lock" /\ proc'[p].pc = "idle") =>
                /\ waitedTooLong(q.polls[p])
                /\ q'.out[p] = "timed out waiting for lock"
                /\ proc'[p] = IdleProc
                /\ lockFile /\ lockFile'
                /\ \E o \in Procs \ {p} : proc[o].held /\ proc'[o] = proc[o]
                /\ disk' = disk
                /\ runs' = runs]_vars
    /\ [][\A p \in Procs :
            (proc[p].pc = "lock" /\ proc'[p].pc # "lock" /\ proc'[p].pc # "idle") =>
                /\ ~lockFile
                /\ proc'[p].held
                /\ proc'[p].pc = "load"]_vars
    /\ [](\A p \in Procs :
            /\ proc[p].pc \in {"idle", "lock"} => ~proc[p].held
            /\ proc[p].pc \notin {"idle", "lock"} => proc[p].held /\ lockFile)

\* process 1 has timed out while process 2, which has loaded the queue,
\* still holds the lock
C33_Witness ==
    /\ q.out[1] = "timed out waiting for lock"
    /\ proc[1].pc = "idle"
    /\ proc[2].held
    /\ proc[2].pc = "apply"
    /\ lockFile
    /\ Len(disk) = 1

\* C34: the first release of a holder leaves no lock file, and a second
\* call of the same release leaves no lock file either and changes nothing
\* else; if nobody acquired in between, the second call changes nothing.
C34_ReleaseIdempotent ==
    /\ [][\A p \in Procs :
            (proc[p].held /\ ~proc'[p].held) => ~lockFile']_vars
    /\ [][\A p \in Procs :
            (q.out[p] = "acquired" /\ q'.out[p] = "released again") =>
                /\ ~lockFile'
                /\ proc' = proc
                /\ disk' = disk
                /\ (\A o \in Procs : ~proc[o].held) => lockFile' = lockFile]_vars

\* process 1 has released twice, and nobody holds the lock
C34_Witness ==
    /\ q.out[1] = "released again"
    /\ \A o \in Procs : ~proc[o].held
    /\ ~lockFile
    /\ Len(disk) = 1

\* C35: a go that returns an error after the agent of its task has run
\* (its lock file is gone afterwards) writes neither tasks.jsonl nor
\* runs.jsonl in that step and leaves the task in_progress on disk; and the
\* next go recovers it: a go that has loaded the queue and is about to select
\* its first task has no in_progress task in it.
C35_ErrorAfterAgentIsRecovered ==
    /\ [][\A p \in Procs :
            (/\ proc[p].cmd = "go"
             /\ proc[p].pc \in {"finish", "persist"}
             /\ proc'[p].pc = "idle"
             /\ ~lockFile') =>
                /\ disk' = disk
                /\ runs' = runs
                /\ InProgress(disk') = {proc[p].idx}]_vars
    /\ [](\A p \in Procs :
            (proc[p].cmd = "go" /\ proc[p].pc = "select" /\ proc[p].processed = 0)
            => \A i \in Tasks(proc[p].tasks) :
                   proc[p].tasks[i].status # statusInProgress)

\* C36: while a go invocation is anywhere between the start of the agent
\* and the persist of the final state of a task, that task is in_progress
\* in tasks.jsonl; a task becomes in_progress on disk only from todo or
\* failed, by the step that starts it, before any agent call; and the
\* persist of an iteration changes only the task the iteration marked, from
\* in_progress to done, failed or blocked.
C36_InProgressBeforeAgent ==
    /\ [](\A p \in Procs :
            LET me == proc[p]
            IN (me.cmd = "go" /\ (me.pc \in MidTask \/ me.calls # <<>> \/ me.vlog # <<>>)) =>
                 /\ me.pc \in MidTask
                 /\ me.idx \in Tasks(disk)
                 /\ disk[me.idx].id = me.tasks[me.idx].id
                 /\ disk[me.idx].status = statusInProgress)
    /\ [][\A i \in Tasks(disk') :
            (disk'[i].status = statusInProgress /\ disk[i].status # statusInProgress) =>
                /\ disk[i].status \in {statusTodo, statusFailed}
                /\ \E p \in Procs :
                     /\ proc[p].pc = "select"
                     /\ proc'[p].pc = "agent"
                     /\ proc'[p].idx = i
                     /\ proc'[p].calls = <<>>]_vars
    /\ [][\A p \in Procs :
            PersistStep(p) =>
                /\ Len(disk') = Len(disk)
                /\ \A i \in Tasks(disk) :
                     IF i = proc[p].idx
                     THEN /\ disk[i].status = statusInProgress
                          /\ disk'[i].status \in {statusDone, statusFailed, statusBlocked}
                     ELSE disk'[i] = disk[i]]_vars

\* a verify command of the second task is running, the task is in_progress
\* on disk, and a skip is waiting for the lock
C36_Witness ==
    \E p \in Procs, r \in Procs :
        /\ proc[p].cmd = "go"
        /\ proc[p].pc = "verify"
        /\ proc[p].idx = 2
        /\ disk[2].status = statusInProgress
        /\ disk[1].status = statusDone
        /\ proc[r].cmd = "skip"
        /\ proc[r].pc = "lock"

\* the order of the places of an iteration
Rank(pc) ==
    CASE pc = "agent" -> 1 [] pc = "fallback" -> 2 [] pc = "verify" -> 3
      [] pc = "gate" -> 4 [] pc = "finish" -> 5 [] pc = "persist" -> 6

\* C37: an iteration goes through its places in order and appends to
\* runs.jsonl at one of them only, one record, for its task, whether or not
\* the fallback agent was invoked; when the iteration completes, that record
\* is the last one and its status is the status persisted for the task.
C37_OneRunRecordPerIteration ==
    /\ [][\A p \in Procs :
            (proc[p].pc \in MidTask /\ proc'[p].pc \in MidTask /\ proc'[p] # proc[p]) =>
                /\ proc'[p].idx = proc[p].idx
                /\ \/ Rank(proc'[p].pc) > Rank(proc[p].pc)
                   \/ proc[p].pc = "verify" /\ proc'[p].pc = "verify"
                /\ (runs' # runs) <=> proc'[p].pc = "persist"]_vars
    /\ [][runs' # runs =>
            \E p \in Procs :
                /\ proc[p].pc = "finish"
                /\ proc'[p].pc = "persist"
                /\ ~proc[p].dryRun
                /\ Len(runs') = Len(runs) + 1
                /\ \A k \in 1..Len(runs) : runs'[k] = runs[k]
                /\ runs'[Len(runs')].task_id = proc[p].tasks[proc[p].idx].id]_vars
    /\ [][\A p \in Procs :
            PersistStep(p) =>
                /\ runs' = runs
                /\ runs[Len(runs)].task_id = disk'[proc[p].idx].id
                /\ runs[Len(runs)].status = disk'[proc[p].idx].status
                /\ runs[Len(runs)].status \in {statusDone, statusFailed, statusBlocked}]_vars

\* an iteration in which the fallback agent was invoked and failed has
\* completed: one run record, with the status persisted for the task
C37_Witness ==
    /\ proc[1].cmd = "go"
    /\ proc[1].pc = "select"
    /\ proc[1].processed = 1
    /\ Len(runs) = 1
    /\ runs[1].fallback_reason # ""
    /\ runs[1].status = statusFailed
    /\ disk[1].status = statusFailed
    /\ disk[1].attempts = 1

\* how many iterations of p's go have been completed on the task with this id
Executions(p, id) ==
    Cardinality({k \in 1..Len(proc[p].taskIDs) : proc[p].taskIDs[k] = id})

\* C38: a go invocation whose calls all return ends, as long as runs.jsonl
\* has room for the records of the tasks it has yet to run (fewer than
\* MaxRuns records when it selects a runnable task); within it the
\* executions of a task, the one under way included, never exceed
\* maxAttempts, every execution that did not end in done having been
\* charged as an attempt; and when a loop without limit is left for the
\* summary, no task of its queue is todo or failed below maxAttempts, the
\* queue on disk being that queue unless the go is a dry run.
C38_GoTerminates ==
    /\ ((proc[1].cmd = "go" /\ proc[1].pc \in MidTask \cup {"select", "summary"})
            ~> \/ proc[1].pc = "idle"
               \/ /\ proc[1].pc = "select"
                  /\ Len(runs) = MaxRuns
                  /\ RunnableOnDisk(proc[1].tasks) # {})
    /\ [](\A p \in Procs :
            LET me == proc[p]
            IN (me.cmd = "go" /\ ~me.dryRun /\ me.pc \in MidTask \cup {"select", "summary"}) =>
                 /\ \A i \in Tasks(me.tasks) :
                      LET n == Executions(p, me.tasks[i].id)
                          underWay == IF me.pc \in MidTask /\ me.idx = i THEN 1 ELSE 0
                      IN /\ n + underWay <= maxAttempts
                         /\ me.tasks[i].status # statusDone => n <= me.tasks[i].attempts
                         /\ me.tasks[i].status = statusDone => n <= me.tasks[i].attempts + 1
                 /\ me.pc = "summary" => disk = me.tasks)
    /\ [](\A p \in Procs :
            (proc[p].cmd = "go" /\ proc[p].pc = "summary" /\ proc[p].limit = 0) =>
                 \A i \in Tasks(proc[p].tasks) :
                     /\ proc[p].tasks[i].status # statusTodo
                     /\ ~(/\ proc[p].tasks[i].status = statusFailed
                          /\ proc[p].tasks[i].attempts < maxAttempts))

\* a go without limit has run the task twice, the cap, and left its loop
\* with the task blocked
C38_Witness ==
    /\ proc[1].cmd = "go"
    /\ proc[1].limit = 0
    /\ proc[1].pc = "summary"
    /\ Executions(1, 1) = maxAttempts
    /\ disk[1].status = statusBlocked
    /\ disk[1].attempts = maxAttempts
    /\ Len(runs) = maxAttempts

\* C39: a command that has acquired the lock and finds a line of
\* tasks.jsonl that does not parse can only return: it names the first such
\* line, leaves tasks.jsonl and runs.jsonl as they are and removes its lock
\* file; so does a reset or a skip of an id that no task of the file has.
C39_LoadOrLookupErrorWritesNothing ==
    /\ [][\A p \in Procs :
            (/\ proc[p].pc = "load"
             /\ proc'[p] # proc[p]
             /\ \E k \in Tasks(disk) : disk[k] = BadLine) =>
                /\ proc[p].held
                /\ proc'[p] = IdleProc
                /\ ~lockFile'
                /\ disk' = disk
                /\ runs' = runs
                /\ q'.cmd = proc[p].cmd
                /\ disk[q'.line] = BadLine
                /\ \A k \in 1..(q'.line - 1) : disk[k] # BadLine]_vars
    /\ [][\A p \in Procs, id \in 1..(MaxTasks + 1) :
            (/\ cmdReset(p, id) \/ cmdSkip(p, id)
             /\ \A k \in Tasks(disk) : disk[k].id # id) =>
                /\ proc[p].held
                /\ proc'[p] = IdleProc
                /\ ~lockFile'
                /\ disk' = disk
                /\ runs' = runs]_vars

\* a skip has returned the parse error of line 2 of a two-line file, and
\* its lock is released
C39_Witness ==
    /\ q.cmd = "skip"
    /\ q.line = 2
    /\ Len(disk) = 2
    /\ disk[2] = BadLine
    /\ \A p \in Procs : proc[p].pc = "idle"
    /\ ~lockFile

\* a task as skip leaves it
Skipped(t) == t.status = statusBlocked /\ t.last_error = ErrSkipped

\* C40: a skip of the id of a task of tasks.jsonl, whatever its status,
\* makes it blocked with last_error "skipped: ...", keeps its attempts and
\* every other field, and changes no other task; a task in that state is
\* changed on disk only by a reset, which makes it todo, and no go chooses
\* it, for execution or in a dry run.
C40_SkipBlocksUntilReset ==
    /\ [][\A p \in Procs, id \in 1..MaxTasks :
            cmdSkip(p, id) =>
                \A k \in Tasks(disk) :
                    IF disk[k].id = id
                    THEN /\ disk'[k] = [disk[k] EXCEPT !.status = statusBlocked,
                                                       !.last_error = ErrSkipped]
                         /\ disk'[k].attempts = disk[k].attempts
                         /\ Len(disk') = Len(disk)
                    ELSE k \in Tasks(disk') /\ disk'[k] = disk[k]]_vars
    /\ [][\A k \in Tasks(disk) :
            (Skipped(disk[k]) /\ disk'[k] # disk[k]) =>
                /\ \E p \in Procs : proc[p].cmd = "reset" /\ proc[p].pc = "apply"
                /\ disk'[k].status = statusTodo]_vars
    /\ [][\A p \in Procs :
            (/\ proc[p].cmd = "go"
             /\ proc[p].pc = "select"
             /\ proc'[p].pc \in {"agent", "select"}
             /\ proc'[p] # proc[p]) =>
                LET k == nextRunnableTaskIndex(proc[p].tasks)
                IN /\ k \in Tasks(disk)
                   /\ ~Skipped(disk[k])
                   /\ ~Skipped(proc[p].tasks[k])
                   /\ proc'[p].pc = "agent" => proc'[p].idx = k]_vars
    /\ [](\A p \in Procs :
            (proc[p].cmd = "go" /\ proc[p].pc \in MidTask) => ~Skipped(disk[proc[p].idx]))

\* the first task failed once and was then skipped: blocked, with its one
\* attempt; a later go has run the second task and not the first
C40_Witness ==
    \E p \in Procs :
        /\ Len(disk) = 2
        /\ Skipped(disk[1])
        /\ disk[1].attempts = 1
        /\ disk[2].status = statusDone
        /\ proc[p].cmd = "go"
        /\ proc[p].pc = "summary"
        /\ proc[p].taskIDs = <<disk[2].id>>

====
